---- MODULE Spec2Model ----
(***************************************************************************)
(* State-machine model of deepctools (src/deepctools/DeePCtools.py): the   *)
(* constructor with its shape validation and constraint builder, the two   *)
(* solver formulations (init_DeePCsolver, init_RDeePCsolver) and           *)
(* solver_step.                                                            *)
(*                                                                         *)
(* Conventions.  A Python list or a flattened column vector is a sequence; *)
(* a matrix is a sequence of rows; Python's 0-based index r is element     *)
(* r + 1.  An optional value is a sequence of length 0 (None) or 1         *)
(* (Some(x)), so that None differs from the empty list Some(<<>>).  A      *)
(* weight matrix is modelled by its shape <<rows, cols>>: the code reads   *)
(* weights only through .shape and inside the objective expression.        *)
(***************************************************************************)
EXTENDS Integers, Sequences, FiniteSets, TLC

VARIABLES phase, err, args, self, solver, lbc, ubc, builds, hist, last

vars == <<phase, err, args, self, solver, lbc, ubc, builds, hist, last>>

(* ------------------------------ bounds --------------------------------- *)
MaxDim == 2
MaxTini == 2
MaxNp == 2
MaxT == 6
MaxIdx == 2
MaxBuilds == 2

(* ------------------------------ options -------------------------------- *)
None == <<>>
Some(x) == <<x>>
IsNone(o) == Len(o) = 0
Val(o) == o[1]

(* ------------------------- numpy array helpers ------------------------- *)
\* x.shape of a matrix held as a non-empty sequence of rows
ShapeOf(M) == <<Len(M), Len(M[1])>>

\* np.tile(v, n) for a 1-D v: v repeated n times, in order
RECURSIVE np_tile(_, _)
np_tile(v, n) == IF n <= 0 THEN <<>> ELSE v \o np_tile(v, n - 1)

\* np.concatenate of a list of 1-D arrays / of row blocks
RECURSIVE np_concatenate(_)
np_concatenate(blocks) ==
    IF Len(blocks) = 0 THEN <<>> ELSE Head(blocks) \o np_concatenate(Tail(blocks))

\* x.any(): some entry is nonzero
np_any(v) == \E k \in 1..Len(v) : v[k] # 0

\* M @ g for a matrix M (sequence of rows) and a vector g
RECURSIVE Dot(_, _)
Dot(r, g) == IF Len(r) = 0 THEN 0 ELSE Head(r) * Head(g) + Dot(Tail(r), Tail(g))

MatVec(M, g) == [r \in 1..Len(M) |-> Dot(M[r], g)]

(* ------------------------- offline trajectory -------------------------- *)
\* the offline data ud / yd: entry (t, c), 0-based, of a series of `rows` samples
udAt(t, c) == 10 * (t + 1) + c + 1
ydAt(t, c) == 100 + 7 * (t + 1) + 3 * c

TrajU(rows, dim) == [t \in 1..rows |-> [c \in 1..dim |-> udAt(t - 1, c - 1)]]
TrajY(rows, dim) == [t \in 1..rows |-> [c \in 1..dim |-> ydAt(t - 1, c - 1)]]

\* util.hankel(x, L): raises when L exceeds the data length, else the
\* (dim*L) x (T-L+1) block-Hankel matrix, H[i*dim + c][s] = x[s + i][c]
hankelRaises(x, L) == L > Len(x)

hankel(x, L) ==
    LET T == Len(x)
        dim == Len(x[1])
    IN  [r \in 1..(dim * L) |->
            [s \in 1..(T - L + 1) |-> x[s + ((r - 1) \div dim)][((r - 1) % dim) + 1]]]

(* --------------------------- __init__ pieces --------------------------- *)
\* self.g_dim = T - Tini - Np + 1
g_dimOf(T, Tini, Np) == T - Tini - Np + 1

\* self.yref = np.tile(ys, (Np, 1)).reshape(-1, 1), flattened
yrefOf(ys, Np) == np_tile(ys, Np)

\* self.uref = None; if us.any(): self.uref = np.tile(us, (Np, 1)).reshape(-1, 1)
urefOf(us, Np) == IF np_any(us) THEN Some(np_tile(us, Np)) ELSE None

\* _checkshape comparing the number of rows only
_checkshapeRowsOnly(x, x_shape) == (~IsNone(x)) /\ Val(x)[1] # x_shape[1]

\* _checkshape(x, x_shape): TRUE when it raises.  x is None or Some(shape of x).
_checkshape(x, x_shape) == (~IsNone(x)) /\ Val(x) # x_shape

\* __init__ without its call of _checkvar: no shape is checked
_checkvarSkipped(s) == "ok"

\* _checkvar: the ten shape checks in source order; the name of the first
\* variable whose check raises, or "ok".  (The two persistent-excitation
\* tests that follow only warn and change no state.)
_checkvar(s) ==
    LET checks == <<
            <<"Up", Some(ShapeOf(s.Up)), <<s.u_dim * s.Tini, s.g_dim>> >>,
            <<"Yp", Some(ShapeOf(s.Yp)), <<s.y_dim * s.Tini, s.g_dim>> >>,
            <<"Uf", Some(ShapeOf(s.Uf)), <<s.u_dim * s.Np, s.g_dim>> >>,
            <<"Yf", Some(ShapeOf(s.Yf)), <<s.y_dim * s.Np, s.g_dim>> >>,
            <<"uref", IF IsNone(s.uref) THEN None ELSE Some(<<Len(Val(s.uref)), 1>>),
                      <<s.u_dim * s.Np, 1>> >>,
            <<"yref", Some(<<Len(s.yref), 1>>), <<s.y_dim * s.Np, 1>> >>,
            <<"Q", Some(s.Q), <<s.y_dim * s.Np, s.y_dim * s.Np>> >>,
            <<"R", Some(s.R), <<s.u_dim * s.Np, s.u_dim * s.Np>> >>,
            <<"lambda_g", s.lambda_g, <<s.g_dim, s.g_dim>> >>,
            <<"lambda_y", s.lambda_y, <<s.y_dim * s.Tini, s.y_dim * s.Tini>> >> >>
        bad == {k \in 1..Len(checks) : _checkshape(checks[k][2], checks[k][3])}
    IN  IF bad = {} THEN "ok"
        ELSE checks[CHOOSE k \in bad : \A j \in bad : k <= j][1]

\* idx_H with the two loops exchanged: [v + i * dim for v in idx for i in range(Np)]
idx_H_swapped(idx, dim, Np) ==
    [p \in 1..(Np * Len(idx)) |->
        idx[((p - 1) \div Np) + 1] + ((p - 1) % Np) * dim]

\* idx_H = [v + i * dim for i in range(self.Np) for v in idx]
idx_H(idx, dim, Np) ==
    [p \in 1..(Np * Len(idx)) |->
        idx[((p - 1) % Len(idx)) + 1] + ((p - 1) \div Len(idx)) * dim]

\* H_all[idx_H, :]: numpy row selection; a negative index counts from the end
TakeRows(H_all, rows) ==
    [p \in 1..Len(rows) |->
        H_all[(IF rows[p] < 0 THEN rows[p] + Len(H_all) ELSE rows[p]) + 1]]

TakeRowsRaises(H_all, rows) ==
    \E p \in 1..Len(rows) : rows[p] >= Len(H_all) \/ rows[p] < -Len(H_all)

\* one pass of the loop body of _init_ineq_cons for the item (varname, idx):
\* the block appended to Hc_list, lbc_list, ubc_list, or the error raised
IneqItem(s, varname, idx, ineqconbd) ==
    LET H_all == IF varname = "u" THEN s.Uf ELSE s.Yf
        dim == IF varname = "u" THEN s.u_dim ELSE s.y_dim
        lb == IF varname = "u" THEN ineqconbd.lbu ELSE ineqconbd.lby
        ub == IF varname = "u" THEN ineqconbd.ubu ELSE ineqconbd.uby
        rows == idx_H(idx, dim, s.Np)
    IN  IF varname \notin {"u", "y"}
            THEN [err |-> "ValueError:varname", Hc |-> <<>>, lbc |-> <<>>, ubc |-> <<>>]
        ELSE IF TakeRowsRaises(H_all, rows)
            THEN [err |-> "IndexError", Hc |-> <<>>, lbc |-> <<>>, ubc |-> <<>>]
        ELSE [err |-> "none", Hc |-> TakeRows(H_all, rows),
              lbc |-> np_tile(lb, s.Np), ubc |-> np_tile(ub, s.Np)]

\* _init_ineq_cons(ineqconidx, ineqconbd) -> (Hc, lbc, ubc) or an error.
\*  - ineqconidx is None: lbc and ubc are Python lists, and the common
\*    return statement calls lbc.tolist() on a list: AttributeError.
\*  - ineqconidx == {}: np.concatenate([]) raises ValueError.
\*  - otherwise the items are processed in dictionary order; the first
\*    item that raises aborts the call.
_init_ineq_cons(s, ineqconidx, ineqconbd) ==
    IF IsNone(ineqconidx)
        THEN [err |-> "AttributeError:tolist", Hc |-> <<>>, lbc |-> <<>>, ubc |-> <<>>]
    ELSE
        LET items == Val(ineqconidx)
            blocks == [k \in 1..Len(items) |->
                          IneqItem(s, items[k].varname, items[k].idx, ineqconbd)]
            bad == {k \in 1..Len(items) : blocks[k].err # "none"}
        IN  IF bad # {}
                THEN [err |-> blocks[CHOOSE k \in bad : \A j \in bad : k <= j].err,
                      Hc |-> <<>>, lbc |-> <<>>, ubc |-> <<>>]
            ELSE IF Len(items) = 0
                THEN [err |-> "ValueError:concatenate", Hc |-> <<>>, lbc |-> <<>>, ubc |-> <<>>]
            ELSE [err |-> "none",
                  Hc |-> np_concatenate([k \in 1..Len(items) |-> blocks[k].Hc]),
                  lbc |-> np_concatenate([k \in 1..Len(items) |-> blocks[k].lbc]),
                  ubc |-> np_concatenate([k \in 1..Len(items) |-> blocks[k].ubc])]

\* the controller's fields before any of them is computed
EmptySelf ==
    [u_dim |-> 0, y_dim |-> 0, T |-> 0, Tini |-> 0, Np |-> 0, g_dim |-> 0,
     Q |-> <<0, 0>>, R |-> <<0, 0>>, lambda_g |-> None, lambda_y |-> None,
     us |-> None, ys |-> <<>>, yref |-> <<>>, uref |-> None,
     Up |-> <<>>, Uf |-> <<>>, Yp |-> <<>>, Yf |-> <<>>,
     Hc |-> <<>>, lbc_ineq |-> <<>>, ubc_ineq |-> <<>>]

\* __init__, lines 81-103: the fields set before _checkvar (self.Hud is
\* Up \o Uf and self.Hyd is Yp \o Yf)
InitFields(a) ==
    LET Hud == hankel(TrajU(a.udlen, a.u_dim), a.Tini + a.Np)
        Hyd == hankel(TrajY(a.ydlen, a.y_dim), a.Tini + a.Np)
    IN  [EmptySelf EXCEPT
            !.u_dim = a.u_dim, !.y_dim = a.y_dim, !.T = a.T, !.Tini = a.Tini,
            !.Np = a.Np, !.g_dim = g_dimOf(a.T, a.Tini, a.Np),
            !.Q = a.Q, !.R = a.R, !.lambda_g = a.lambda_g, !.lambda_y = a.lambda_y,
            !.us = a.us, !.ys = a.ys, !.yref = yrefOf(a.ys, a.Np),
            !.uref = urefOf(Val(a.us), a.Np),
            !.Up = SubSeq(Hud, 1, a.u_dim * a.Tini),
            !.Uf = SubSeq(Hud, a.u_dim * a.Tini + 1, Len(Hud)),
            !.Yp = SubSeq(Hyd, 1, a.y_dim * a.Tini),
            !.Yf = SubSeq(Hyd, a.y_dim * a.Tini + 1, Len(Hyd))]

\* __init__(a): the error raised ("none" when the object is constructed)
\* and the constructed fields.  Statement order of the source:
\*   us.any() on us = None raises AttributeError            (line 95)
\*   util.hankel raises on a window longer than the data    (lines 98-99)
\*   _checkvar raises on the first shape mismatch           (line 106)
\*   _init_ineq_cons                                        (line 109)
Construct(a) ==
    IF IsNone(a.us) THEN [err |-> "AttributeError:any", self |-> EmptySelf]
    ELSE IF \/ hankelRaises(TrajU(a.udlen, a.u_dim), a.Tini + a.Np)
            \/ hankelRaises(TrajY(a.ydlen, a.y_dim), a.Tini + a.Np)
        THEN [err |-> "DimensionError", self |-> EmptySelf]
    ELSE
        LET s == InitFields(a)
            cv == _checkvar(s)
        IN  IF cv # "ok" THEN [err |-> "ValueError:shape", self |-> EmptySelf]
            ELSE
                LET ic == _init_ineq_cons(s, a.ineqconidx, a.ineqconbd)
                IN  IF ic.err # "none" THEN [err |-> ic.err, self |-> EmptySelf]
                    ELSE [err |-> "none",
                          self |-> [s EXCEPT !.Hc = ic.Hc, !.lbc_ineq = ic.lbc,
                                             !.ubc_ineq = ic.ubc]]

(* ------------------------ formulation (formulate) ---------------------- *)
ULoss == {"u", "uus", "du"}

\* if self.g_dim <= (self.u_dim + self.y_dim) * self.Tini: raise   (line 256)
DeePCdofRaises(s) == s.g_dim <= (s.u_dim + s.y_dim) * s.Tini

\* the robust check written with the standard design's threshold
RDeePCdofAsStandard(s) == s.g_dim <= (s.u_dim + s.y_dim) * s.Tini

\* if self.g_dim <= self.u_dim * self.Tini: raise                  (line 358)
RDeePCdofRaises(s) == s.g_dim <= s.u_dim * s.Tini

\* the lambda check with `and` in place of `or`
lambdaRaisesBoth(s) == IsNone(s.lambda_g) /\ IsNone(s.lambda_y)

\* if self.lambda_g is None or self.lambda_y is None: raise        (line 355)
lambdaRaises(s) == IsNone(s.lambda_g) \/ IsNone(s.lambda_y)

\* if uloss == 'uus': if self.uref is None: raise           (lines 275-277)
uusRaises(s, uloss) == uloss = "uus" /\ IsNone(s.uref)

\* a row of the constraint vector C: row `row` (1-based) of matrix `mat`
\* times g, minus entry `row` of the parameter `par` ("none": nothing)
CRow(mat, row, par) == [mat |-> mat, row |-> row, par |-> par]

\* C += [cs.mtimes(self.Up, g) - uini]; one bound pair per row of uini
EqRowsU(s) == [i \in 1..(s.u_dim * s.Tini) |-> CRow("Up", i, "uini")]

\* C += [cs.mtimes(self.Yp, g) - yini]; one bound pair per row of yini
EqRowsY(s) == [i \in 1..(s.y_dim * s.Tini) |-> CRow("Yp", i, "yini")]

\* C += [cs.mtimes(self.Hc, g)]
IneqRows(s) == [j \in 1..Len(s.Hc) |-> CRow("Hc", j, "none")]

Zeros(n) == [i \in 1..n |-> 0]

\* the constraint stack and bounds of init_DeePCsolver       (lines 294-309)
DeePCcons(s) ==
    [C   |-> EqRowsU(s) \o EqRowsY(s) \o IneqRows(s),
     lbc |-> Zeros(s.u_dim * s.Tini) \o Zeros(s.y_dim * s.Tini) \o s.lbc_ineq,
     ubc |-> Zeros(s.u_dim * s.Tini) \o Zeros(s.y_dim * s.Tini) \o s.ubc_ineq]

\* the robust stack with the standard design's Yp equality block kept
RDeePCconsWithYp(s) ==
    [C   |-> EqRowsU(s) \o EqRowsY(s) \o IneqRows(s),
     lbc |-> Zeros(s.u_dim * s.Tini) \o Zeros(s.y_dim * s.Tini) \o s.lbc_ineq,
     ubc |-> Zeros(s.u_dim * s.Tini) \o Zeros(s.y_dim * s.Tini) \o s.ubc_ineq]

\* the constraint stack and bounds of init_RDeePCsolver      (lines 399-410)
RDeePCcons(s) ==
    [C   |-> EqRowsU(s) \o IneqRows(s),
     lbc |-> Zeros(s.u_dim * s.Tini) \o s.lbc_ineq,
     ubc |-> Zeros(s.u_dim * s.Tini) \o s.ubc_ineq]

\* v[start:stop] of Python: an absent limit is None, a negative one counts
\* from the end, and both are clipped to the sequence
PyIndex(i, n) == IF i < 0 THEN (IF i + n < 0 THEN 0 ELSE i + n) ELSE (IF i > n THEN n ELSE i)
PySlice(v, start, stop) ==
    LET lo == IF IsNone(start) THEN 0 ELSE PyIndex(Val(start), Len(v))
        hi == IF IsNone(stop) THEN Len(v) ELSE PyIndex(Val(stop), Len(v))
    IN  SubSeq(v, lo + 1, hi)

\* a symbolic scalar: entry `at` (1-based) of the vector `sym`, which is
\* "Uf*g" for cs.mtimes(self.Uf, g) or "uini" for the parameter
Entry(sym, at) == [sym |-> sym, at |-> at]

\* u_cur = cs.mtimes(self.Uf, g)                          (lines 285, 387)
u_curOf(s) == [j \in 1..Len(s.Uf) |-> Entry("Uf*g", j)]

\* the parameter uini, of shape (u_dim * Tini, 1)                (line 208)
uiniOf(s) == [i \in 1..(s.u_dim * s.Tini) |-> Entry("uini", i)]

\* u_prev shifted by one entry instead of one step (u_dim entries)
u_prevShiftOne(s) ==
    PySlice(uiniOf(s), Some(-1), None) \o PySlice(u_curOf(s), None, Some(-1))

\* u_prev = cs.vertcat(uini[-self.u_dim:], cs.mtimes(self.Uf, g)[:-self.u_dim])
u_prevOf(s) ==
    PySlice(uiniOf(s), Some(-s.u_dim), None) \o PySlice(u_curOf(s), None, Some(-s.u_dim))

\* du = u_cur - u_prev, entry by entry                     (lines 287, 389)
duOf(s) ==
    LET u_cur == u_curOf(s)
        u_prev == u_prevOf(s)
    IN  [j \in 1..Len(u_cur) |-> [cur |-> u_cur[j], prev |-> u_prev[j]]]

\* the objective together with the du it is built on (uloss 'du' only)
WithDu(obj, s, uloss) ==
    [kind |-> obj.kind, H |-> obj.H, f |-> obj.f,
     du |-> IF uloss = "du" THEN duOf(s) ELSE <<>>]

\* the objective, as the terms the source adds up
DeePCobj(uloss) ==
    IF uloss = "u"
        THEN [kind |-> "QP", H |-> {"Yf'QYf", "Uf'RUf"}, f |-> {"-Yf'Qyref"}]
    ELSE IF uloss = "uus"
        THEN [kind |-> "QP", H |-> {"Yf'QYf", "Uf'RUf"}, f |-> {"-Yf'Qyref", "-Uf'Ruref"}]
    ELSE [kind |-> "NLP", H |-> {"y_loss'Qy_loss", "du'Rdu"}, f |-> {}]

RDeePCobj(uloss) ==
    IF uloss = "u"
        THEN [kind |-> "QP", H |-> {"Yf'QYf", "Uf'RUf", "Yp'lambda_yYp", "lambda_g"},
              f |-> {"-Yp'lambda_yyini", "-Yf'Qyref"}]
    ELSE IF uloss = "uus"
        THEN [kind |-> "QP", H |-> {"Yf'QYf", "Uf'RUf", "Yp'lambda_yYp", "lambda_g"},
              f |-> {"-Yp'lambda_yyini", "-Yf'Qyref", "-Uf'Ruref"}]
    ELSE [kind |-> "NLP",
          H |-> {"y_loss'Qy_loss", "du'Rdu", "g'lambda_gg", "sigma_y'lambda_ysigma_y"},
          f |-> {}]

\* the pre-checks of init_DeePCsolver in source order: the error raised,
\* or "ok"                                                   (lines 254-277)
DeePCcheck(s, uloss) ==
    IF uloss \notin ULoss THEN "ValueError:uloss"
    ELSE IF DeePCdofRaises(s) THEN "ValueError:dof"
    ELSE IF uusRaises(s, uloss) THEN "ValueError:us"
    ELSE "ok"

\* the pre-checks of init_RDeePCsolver in source order       (lines 353-379)
RDeePCcheck(s, uloss) ==
    IF uloss \notin ULoss THEN "ValueError:uloss"
    ELSE IF lambdaRaises(s) THEN "ValueError:lambda"
    ELSE IF RDeePCdofRaises(s) THEN "ValueError:dof"
    ELSE IF uusRaises(s, uloss) THEN "ValueError:us"
    ELSE "ok"

\* a builder that hands back the object it built last for the same problem
nlpsolCached(n, mode, uloss, obj, C) ==
    [id |-> n, mode |-> mode, uloss |-> uloss, obj |-> obj, C |-> C]

\* cs.nlpsol('solver', 'ipopt', nlp_prob, opts): a new solver object; `n`
\* counts the objects built so far on this controller
nlpsol(n, mode, uloss, obj, C) ==
    [id |-> n + 1, mode |-> mode, uloss |-> uloss, obj |-> obj, C |-> C]

(* ------------------------------ call record ---------------------------- *)
\* the most recent call on the object: its arguments, the solver object held
\* when it was made, what it passed to the backend and what it returned
NoCall ==
    [op |-> "none", mode |-> "", uloss |-> "", result |-> "", held |-> None,
     ncalls |-> 0, x0 |-> <<>>, p |-> <<>>,
     lbg |-> None, ubg |-> None, converged |-> FALSE, ret |-> <<>>]

(* ------------------------------- actions ------------------------------- *)
EmptyArgs ==
    [u_dim |-> 0, y_dim |-> 0, T |-> 0, Tini |-> 0, Np |-> 0,
     us |-> None, ys |-> <<>>, udlen |-> 0, ydlen |-> 0,
     Q |-> <<0, 0>>, R |-> <<0, 0>>, lambda_g |-> None, lambda_y |-> None,
     ineqconidx |-> None, ineqconbd |-> [lbu |-> <<>>, ubu |-> <<>>, lby |-> <<>>, uby |-> <<>>]]

Init ==
    /\ phase = "new"
    /\ err = "none"
    /\ args = EmptyArgs
    /\ self = EmptySelf
    /\ solver = None
    /\ lbc = None
    /\ ubc = None
    /\ builds = 0
    /\ hist = None
    /\ last = NoCall

\* deepctools(...): __init__ runs to its end or raises; lines 114-116 leave
\* solver, lbc and ubc at None
DoConstruct(a) ==
    /\ phase = "new"
    /\ LET r == Construct(a)
       IN  /\ phase' = IF r.err = "none" THEN "constructed" ELSE "failed"
           /\ err' = r.err
           /\ self' = r.self
    /\ args' = a
    /\ solver' = None
    /\ lbc' = None
    /\ ubc' = None
    /\ builds' = 0
    /\ hist' = None
    /\ last' = [NoCall EXCEPT !.op = "construct"]

\* init_DeePCsolver(uloss): raise on a failed pre-check, else build
\* init_DeePCsolver storing the bounds before its pre-checks have passed
init_DeePCsolverBoundsFirst(uloss) ==
    LET chk == DeePCcheck(self, uloss)
        cons == DeePCcons(self)
    IN  /\ last' = [NoCall EXCEPT !.op = "formulate", !.mode = "standard",
                                  !.uloss = uloss, !.result = chk, !.held = solver]
        /\ lbc' = Some(cons.lbc)
        /\ ubc' = Some(cons.ubc)
        /\ IF chk = "ok"
              THEN /\ solver' = Some(nlpsol(builds, "standard", uloss,
                                            WithDu(DeePCobj(uloss), self, uloss), cons.C))
                   /\ builds' = builds + 1
              ELSE UNCHANGED <<solver, builds>>

init_DeePCsolver(uloss) ==
    LET chk == DeePCcheck(self, uloss)
        cons == DeePCcons(self)
    IN  /\ last' = [NoCall EXCEPT !.op = "formulate", !.mode = "standard",
                                  !.uloss = uloss, !.result = chk, !.held = solver]
        /\ IF chk = "ok"
              THEN /\ solver' = Some(nlpsol(builds, "standard", uloss,
                                            WithDu(DeePCobj(uloss), self, uloss), cons.C))
                   /\ lbc' = Some(cons.lbc)
                   /\ ubc' = Some(cons.ubc)
                   /\ builds' = builds + 1
              ELSE UNCHANGED <<solver, lbc, ubc, builds>>

\* init_RDeePCsolver(uloss)
init_RDeePCsolver(uloss) ==
    LET chk == RDeePCcheck(self, uloss)
        cons == RDeePCcons(self)
    IN  /\ last' = [NoCall EXCEPT !.op = "formulate", !.mode = "robust",
                                  !.uloss = uloss, !.result = chk, !.held = solver]
        /\ IF chk = "ok"
              THEN /\ solver' = Some(nlpsol(builds, "robust", uloss,
                                            WithDu(RDeePCobj(uloss), self, uloss), cons.C))
                   /\ lbc' = Some(cons.lbc)
                   /\ ubc' = Some(cons.ubc)
                   /\ builds' = builds + 1
              ELSE UNCHANGED <<solver, lbc, ubc, builds>>

\* formulate(design_mode, uloss): one of the two solver initialisers
Formulate ==
    /\ phase = "constructed"
    /\ builds < MaxBuilds
    /\ \E mode \in {"standard", "robust"}, uloss \in ULoss \cup {"dU"} :
          IF mode = "standard" THEN init_DeePCsolver(uloss) ELSE init_RDeePCsolver(uloss)
    /\ UNCHANGED <<phase, err, args, self, hist>>

\* the two histories concatenated in the wrong order
parametersSwapped(uini, yini) == yini \o uini

\* parameters = np.concatenate((uini, yini))
parametersOf(uini, yini) == uini \o yini

\* g0_guess = np.linalg.pinv(np.concatenate((Up, Yp), axis=0)) @ parameters,
\* kept as the expression it is
g0_guessOf(s, parameters) == [pinv |-> s.Up \o s.Yp, rhs |-> parameters]

\* u_opt = np.matmul(self.Uf, g_opt)
u_optOf(Uf, g_opt) == MatVec(Uf, g_opt)

\* the rolling history buffers of the control loop, and what the backend
\* may return in sol['x'] (converged or not)
HistoryOf(n, base) == [k \in 1..n |-> base + k]
Histories(s) ==
    {[uini |-> Zeros(s.u_dim * s.Tini), yini |-> Zeros(s.y_dim * s.Tini)],
     [uini |-> HistoryOf(s.u_dim * s.Tini, 0), yini |-> HistoryOf(s.y_dim * s.Tini, 10)]}
BackendX(s) == {[k \in 1..s.g_dim |-> 1], [k \in 1..s.g_dim |-> k - 2]}

\* the surrounding control loop writes its uini / yini buffers
SetHistory ==
    /\ phase = "constructed"
    /\ \E h \in Histories(self) : hist' = Some(h)
    /\ UNCHANGED <<phase, err, args, self, solver, lbc, ubc, builds, last>>

\* solver_step(uini, yini): with no solver built, calling self.solver
\* (None) raises TypeError; else one backend call and the extraction.
\* Nothing is assigned to self or to the two arguments.
solver_step(uini, yini) ==
    LET parameters == parametersOf(uini, yini)
        g0_guess == g0_guessOf(self, parameters)
    IN  IF IsNone(solver)
            THEN last' = [NoCall EXCEPT !.op = "step", !.result = "TypeError",
                                        !.held = solver]
        ELSE \E x \in BackendX(self), conv \in BOOLEAN, t_s \in {0, 1} :
                LET g_opt == x
                    u_opt == u_optOf(self.Uf, g_opt)
                IN  last' = [NoCall EXCEPT !.op = "step", !.result = "ok",
                                !.held = solver, !.ncalls = 1,
                                !.x0 = g0_guess, !.p = parameters,
                                !.lbg = lbc, !.ubg = ubc, !.converged = conv,
                                !.ret = <<u_opt, g_opt, t_s>>]

Step ==
    /\ phase = "constructed"
    /\ ~IsNone(hist)
    /\ solver_step(Val(hist).uini, Val(hist).yini)
    /\ UNCHANGED <<phase, err, args, self, solver, lbc, ubc, builds, hist>>

(* ---------------------------- constructor inputs ----------------------- *)
Square(n) == <<n, n>>
QShape(y_dim, Np) == Square(y_dim * Np)
RShape(u_dim, Np) == Square(u_dim * Np)
LgShape(T, Tini, Np) == Square(T - Tini - Np + 1)
LyShape(y_dim, Tini) == Square(y_dim * Tini)
Wrong(shape) == <<shape[1], shape[2] + 1>>

UsZero(w) == [c \in 1..w |-> 0]
UsNonzero(w) == [c \in 1..w |-> c]
YsOf(w) == [c \in 1..w |-> 2 * c]

\* the bounds dictionary paired with a constraint specification: component
\* v of u is bounded to [-(v+1), v+1], component v of y to [-(v+11), v+11]
BoundsFor(items) ==
    LET pick(var) == {k \in 1..Len(items) : items[k].varname = var}
        idxOf(var) == IF pick(var) = {} THEN <<>> ELSE items[CHOOSE k \in pick(var) : TRUE].idx
    IN  [lbu |-> [k \in 1..Len(idxOf("u")) |-> -(idxOf("u")[k] + 1)],
         ubu |-> [k \in 1..Len(idxOf("u")) |-> idxOf("u")[k] + 1],
         lby |-> [k \in 1..Len(idxOf("y")) |-> -(idxOf("y")[k] + 11)],
         uby |-> [k \in 1..Len(idxOf("y")) |-> idxOf("y")[k] + 11]]

Item(var, idx) == [varname |-> var, idx |-> idx]

\* lists of at most n component indices of a dim-dimensional signal
IdxListsUpTo(dim, n) == UNION {[1..m -> 0..(dim - 1)] : m \in 0..n}
IdxLists(dim) == IdxListsUpTo(dim, MaxIdx)
ShortLists(dim) == IdxListsUpTo(dim, 1)

\* constraint specifications: absent, empty, one key, both keys in either
\* order, an unknown key, an index beyond the signal's components
ConSpecs(u_dim, y_dim) ==
    {None, Some(<<>>), Some(<<Item("x", <<0>>)>>), Some(<<Item("u", <<u_dim>>)>>)}
    \cup {Some(<<Item("u", i)>>) : i \in IdxLists(u_dim)}
    \cup {Some(<<Item("y", i)>>) : i \in IdxLists(y_dim)}
    \cup {Some(<<Item("u", i), Item("y", j)>>) : i \in IdxLists(u_dim), j \in ShortLists(y_dim)}
    \cup {Some(<<Item("y", j), Item("u", i)>>) : i \in ShortLists(u_dim), j \in IdxLists(y_dim)}

MkArgs(u_dim, y_dim, T, Tini, Np, us, ys, udlen, ydlen, Q, R, lambda_g, lambda_y, spec) ==
    [u_dim |-> u_dim, y_dim |-> y_dim, T |-> T, Tini |-> Tini, Np |-> Np,
     us |-> us, ys |-> ys, udlen |-> udlen, ydlen |-> ydlen,
     Q |-> Q, R |-> R, lambda_g |-> lambda_g, lambda_y |-> lambda_y,
     ineqconidx |-> spec,
     ineqconbd |-> BoundsFor(IF IsNone(spec) THEN <<>> ELSE Val(spec))]

Dims == [u_dim : 1..MaxDim, y_dim : 1..MaxDim, T : 1..MaxT, Tini : 1..MaxTini, Np : 1..MaxNp]

OneU == Some(<<Item("u", <<0>>)>>)

\* the values a constructor argument is drawn from
UsChoices(d) == {None, Some(UsZero(d.u_dim)), Some(UsNonzero(d.u_dim))}
QChoices(d) == {QShape(d.y_dim, d.Np), Wrong(QShape(d.y_dim, d.Np))}
RChoices(d) == {RShape(d.u_dim, d.Np), Wrong(RShape(d.u_dim, d.Np))}
LgGiven(d) == Some(LgShape(d.T, d.Tini, d.Np))
LyGiven(d) == Some(LyShape(d.y_dim, d.Tini))
LgChoices(d) == {None, LgGiven(d), Some(Wrong(LgShape(d.T, d.Tini, d.Np)))}
LyChoices(d) == {None, LyGiven(d), Some(Wrong(LyShape(d.y_dim, d.Tini)))}
YUSpec(d) == Some(<<Item("y", <<d.y_dim - 1>>), Item("u", <<0, 0>>)>>)

\* constructor calls that vary the weight shapes and the set-point us, with
\* a fixed constraint on the first input
ConstructWeights ==
    /\ phase = "new"
    /\ \E d \in Dims :
        \E us \in UsChoices(d), Q \in QChoices(d), R \in RChoices(d),
           lg \in LgChoices(d), ly \in LyChoices(d) :
            DoConstruct(MkArgs(d.u_dim, d.y_dim, d.T, d.Tini, d.Np, us, YsOf(d.y_dim),
                               d.T, d.T, Q, R, lg, ly, OneU))

\* constructor calls that vary the shapes of us, ys, ud and yd
ConstructData ==
    /\ phase = "new"
    /\ \E d \in Dims :
        \E uw \in {d.u_dim, d.u_dim + 1}, yw \in {d.y_dim, d.y_dim + 1},
           ul \in {d.T, d.T + 1}, yl \in {d.T, d.T + 1} :
            DoConstruct(MkArgs(d.u_dim, d.y_dim, d.T, d.Tini, d.Np, Some(UsNonzero(uw)),
                               YsOf(yw), ul, yl, QShape(d.y_dim, d.Np), RShape(d.u_dim, d.Np),
                               LgGiven(d), LyGiven(d), OneU))

\* constructor calls that vary the constraint specification
ConstructCons ==
    /\ phase = "new"
    /\ \E u_dim \in 1..MaxDim, y_dim \in 1..MaxDim, Np \in 1..MaxNp :
        \E spec \in ConSpecs(u_dim, y_dim) :
            DoConstruct(MkArgs(u_dim, y_dim, Np + 2, 1, Np, Some(UsNonzero(u_dim)),
                               YsOf(y_dim), Np + 2, Np + 2, QShape(y_dim, Np),
                               RShape(u_dim, Np), None, None, spec))

\* constructor calls that vary the dimensions, us and the robust weights
ConstructDims ==
    /\ phase = "new"
    /\ \E d \in Dims :
        \E us \in UsChoices(d) \ {None}, lg \in {None, LgGiven(d)}, ly \in {None, LyGiven(d)},
           spec \in {OneU, YUSpec(d)} :
            DoConstruct(MkArgs(d.u_dim, d.y_dim, d.T, d.Tini, d.Np, us, YsOf(d.y_dim),
                               d.T, d.T, QShape(d.y_dim, d.Np), RShape(d.u_dim, d.Np),
                               lg, ly, spec))

\* constructor calls of the control loop
NewController ==
    /\ phase = "new"
    /\ \E d \in {e \in Dims : e.Tini = 1} :
        \E us \in UsChoices(d), lam \in {<<None, None>>, <<LgGiven(d), LyGiven(d)>>} :
            DoConstruct(MkArgs(d.u_dim, d.y_dim, d.T, d.Tini, d.Np, us, YsOf(d.y_dim),
                               d.T, d.T, QShape(d.y_dim, d.Np), RShape(d.u_dim, d.Np),
                               lam[1], lam[2], OneU))

(* ---------------------------- specifications --------------------------- *)
\* the control loop: construct, formulate, step
Next == NewController \/ Formulate \/ SetHistory \/ Step
Spec == Init /\ [][Next]_vars

\* construction alone, over shapes and constraint specifications
NextInit == ConstructWeights \/ ConstructData \/ ConstructCons
SpecInit == Init /\ [][NextInit]_vars

\* construction and formulation over all dimensions
NextForm == ConstructDims \/ Formulate
SpecForm == Init /\ [][NextForm]_vars

(* ------------------------------- claims -------------------------------- *)
Constructed == phase = "constructed"
Attempted == phase # "new"
Items == Val(args.ineqconidx)

\* C1: constructing with the constraint specification absent (None) or
\* empty succeeds and leaves Hc, lbc_ineq and ubc_ineq empty (all other
\* arguments being valid).
C1_UnconstrainedConstructs ==
    (Attempted /\ last.op = "construct"
       /\ (IsNone(args.ineqconidx) \/ Items = <<>>)
       /\ ~IsNone(args.us) /\ args.udlen = args.T /\ args.ydlen = args.T
       /\ args.T >= args.Tini + args.Np
       /\ args.Q = QShape(args.y_dim, args.Np) /\ args.R = RShape(args.u_dim, args.Np)
       /\ IsNone(args.lambda_g) /\ IsNone(args.lambda_y))
    => (Constructed /\ self.Hc = <<>> /\ self.lbc_ineq = <<>> /\ self.ubc_ineq = <<>>)

\* number of rows the items before item k contribute
RECURSIVE RowsBefore(_, _, _)
RowsBefore(items, k, Np) ==
    IF k <= 1 THEN 0 ELSE RowsBefore(items, k - 1, Np) + Np * Len(items[k - 1].idx)

\* C2: for a specification with keys in {u, y}, each key contributes, in
\* specification order, Np*len(idx) rows; the row at position i*len(idx)+k
\* of its block is row idx[k] + i*dim of Uf (key u) or Yf (key y), and the
\* entries of lbc / ubc at that position are the bounds given for idx[k];
\* Hc, lbc and ubc have the same length.
C2_ConstraintTiling ==
    (Constructed /\ last.op = "construct") =>
        LET Np == args.Np
            total == RowsBefore(Items, Len(Items) + 1, Np)
        IN  /\ Len(self.Hc) = total
            /\ Len(self.lbc_ineq) = total
            /\ Len(self.ubc_ineq) = total
            /\ \A k \in 1..Len(Items) :
                 LET it == Items[k]
                     n == Len(it.idx)
                     base == IF it.varname = "u" THEN self.Uf ELSE self.Yf
                     dim == IF it.varname = "u" THEN args.u_dim ELSE args.y_dim
                     lb == IF it.varname = "u" THEN args.ineqconbd.lbu ELSE args.ineqconbd.lby
                     ub == IF it.varname = "u" THEN args.ineqconbd.ubu ELSE args.ineqconbd.uby
                     off == RowsBefore(Items, k, Np)
                 IN  /\ it.varname \in {"u", "y"}
                     /\ \A i \in 0..(Np - 1), m \in 0..(n - 1) :
                          /\ self.Hc[off + i * n + m + 1] = base[it.idx[m + 1] + i * dim + 1]
                          /\ self.lbc_ineq[off + i * n + m + 1] = lb[m + 1]
                          /\ self.ubc_ineq[off + i * n + m + 1] = ub[m + 1]

\* a controller built from a two-key specification whose first key lists two
\* different components, over a horizon of at least two steps
C2_Witness ==
    /\ Constructed /\ last.op = "construct" /\ args.Np >= 2
    /\ Len(Items) = 2 /\ Len(Items[1].idx) = 2 /\ Len(Items[2].idx) = 1
    /\ Items[1].idx[1] # Items[1].idx[2]
    /\ Len(self.Hc) = 3 * args.Np

WeightWrong(a) ==
    \/ a.Q # QShape(a.y_dim, a.Np)
    \/ a.R # RShape(a.u_dim, a.Np)
    \/ (~IsNone(a.lambda_g) /\ Val(a.lambda_g) # LgShape(a.T, a.Tini, a.Np))
    \/ (~IsNone(a.lambda_y) /\ Val(a.lambda_y) # LyShape(a.y_dim, a.Tini))

DataWrong(a) ==
    \/ a.udlen # a.T \/ a.ydlen # a.T
    \/ Len(a.ys) # a.y_dim
    \/ (~IsNone(a.us) /\ np_any(Val(a.us)) /\ Len(Val(a.us)) # a.u_dim)

\* the constructor call gets as far as the shape validation
ReachesCheckvar(a) ==
    ~IsNone(a.us) /\ a.udlen >= a.Tini + a.Np /\ a.ydlen >= a.Tini + a.Np

\* C6: a constructor call with a weight matrix (Q, R, a given lambda_g, a
\* given lambda_y) of a shape other than the table's never produces a
\* controller, and it fails with the shape error whenever the call reaches
\* the shape validation; undefined lambda_g / lambda_y / uref are skipped,
\* and when every supplied shape matches no shape error is raised.
C6_ShapeErrors ==
    Attempted =>
        /\ WeightWrong(args) => phase = "failed"
        /\ (WeightWrong(args) /\ ReachesCheckvar(args)) => err = "ValueError:shape"
        /\ (~WeightWrong(args) /\ ~DataWrong(args)) => err # "ValueError:shape"

\* a call that reached the validation with only lambda_y wrong and lambda_g
\* left undefined, and failed on its shape
C6_Witness ==
    /\ phase = "failed" /\ err = "ValueError:shape"
    /\ args.Q = QShape(args.y_dim, args.Np) /\ args.R = RShape(args.u_dim, args.Np)
    /\ IsNone(args.lambda_g)
    /\ ~IsNone(args.lambda_y) /\ Val(args.lambda_y) # LyShape(args.y_dim, args.Tini)
    /\ ~DataWrong(args)

\* C7: a constructed controller has g_dim = T - Tini - Np + 1, which is
\* positive, and its four data blocks have g_dim columns; whenever
\* T - Tini - Np + 1 <= 0 construction fails.
C7_GDim ==
    /\ Constructed =>
         /\ self.g_dim = args.T - args.Tini - args.Np + 1
         /\ self.g_dim >= 1
         /\ Len(self.Up[1]) = self.g_dim /\ Len(self.Uf[1]) = self.g_dim
         /\ Len(self.Yp[1]) = self.g_dim /\ Len(self.Yf[1]) = self.g_dim
    /\ (Attempted /\ args.T - args.Tini - args.Np + 1 <= 0) => phase = "failed"

\* a controller with the smallest g_dim, and a failed call one sample short
C7_Witness == Constructed /\ self.g_dim = 1 /\ args.T = args.Tini + args.Np
C7_WitnessFail == phase = "failed" /\ args.T - args.Tini - args.Np + 1 = 0 /\ ~IsNone(args.us)

(* the dimensions and set-point as the constructor was given them *)
GDimArg == args.T - args.Tini - args.Np + 1
EqU == args.u_dim * args.Tini
EqUY == (args.u_dim + args.y_dim) * args.Tini
UrefUndefined == IsNone(args.us) \/ ~np_any(Val(args.us))
LambdasGiven == ~IsNone(args.lambda_g) /\ ~IsNone(args.lambda_y)
Formulated == last.op = "formulate"
\* the transition is a call of `op` (every call writes its record; a call
\* that repeats the previous record changes nothing at all)
Called(op) == last' # last /\ last'.op = op
InDofBand == EqU < GDimArg /\ GDimArg <= EqUY

\* C3: with no set-point for u (us absent, or all zero) the controller is
\* still constructed, formulate with uloss = 'uus' then fails with the
\* set-point error and builds no solver, and with a nonzero us the same call
\* succeeds (the call's other pre-checks passing).
C3_UusNeedsSetpoint ==
    /\ (Attempted /\ UrefUndefined /\ args.T >= args.Tini + args.Np) => Constructed
    /\ (Formulated /\ last.uloss = "uus"
          /\ GDimArg > (IF last.mode = "standard" THEN EqUY ELSE EqU)
          /\ (last.mode = "robust" => LambdasGiven))
       => IF UrefUndefined
             THEN last.result = "ValueError:us" /\ solver = last.held
             ELSE last.result = "ok"

C5_RobustNeedsLambdas ==
    [][Called("formulate") =>
          /\ (last'.mode = "robust" /\ last'.uloss \in ULoss /\ ~LambdasGiven) =>
                /\ last'.result = "ValueError:lambda"
                /\ solver' = solver /\ lbc' = lbc /\ ubc' = ubc
          /\ last'.mode = "standard" => last'.result # "ValueError:lambda"]_vars

\* a robust formulate refused for want of lambda_y alone, on a controller
\* that already holds a solver from a standard formulate
C5_Witness ==
    /\ Formulated /\ last.mode = "robust" /\ last.result = "ValueError:lambda"
    /\ ~IsNone(args.lambda_g) /\ IsNone(args.lambda_y)
    /\ ~IsNone(solver) /\ Val(solver).mode = "standard" /\ solver = last.held

SameCombination(h) == h.mode = last.mode /\ h.uloss = last.uloss

\* C9 as claimed: a step never replaces the solver object, and a formulate
\* call for the (mode, uloss) of the object currently held does not build
\* another one.
C9_Original ==
    /\ last.op = "step" => solver = last.held
    /\ (Formulated /\ ~IsNone(last.held) /\ SameCombination(Val(last.held)))
          => solver = last.held

\* C9 (amended): a step never builds or replaces the solver object and a
\* failed formulate leaves it; every successful formulate builds exactly
\* one new object for its (mode, uloss), also when the object held was
\* built for that same combination.
C9_BuildPerFormulate ==
    [][/\ Called("step") => (solver' = solver /\ builds' = builds)
       /\ (Called("formulate") /\ last'.result # "ok") =>
             (solver' = solver /\ builds' = builds)
       /\ (Called("formulate") /\ last'.result = "ok") =>
             /\ builds' = builds + 1
             /\ ~IsNone(solver') /\ solver' # solver
             /\ Val(solver').id = builds'
             /\ Val(solver').mode = last'.mode /\ Val(solver').uloss = last'.uloss]_vars

\* a second successful formulate for the combination already held
C9_Witness ==
    /\ Formulated /\ last.result = "ok"
    /\ ~IsNone(last.held) /\ SameCombination(Val(last.held))
    /\ Val(solver).id = Val(last.held).id + 1

\* C10: a step on a formulated controller calls the backend once, with
\* p = concat(uini, yini) and the stored lbc / ubc, and returns
\* (Uf*g_opt, g_opt, elapsed) whether or not the backend converged; it
\* changes neither the solver, the bounds, the controller's fields nor the
\* caller's history buffers.
C10_Step ==
    [][(Called("step") /\ ~IsNone(solver)) =>
          /\ last'.result = "ok" /\ last'.ncalls = 1
          /\ last'.p = Val(hist).uini \o Val(hist).yini
          /\ last'.lbg = lbc /\ last'.ubg = ubc
          /\ Len(last'.ret) = 3
          /\ Len(last'.ret[2]) = GDimArg
          /\ Len(last'.ret[1]) = args.u_dim * args.Np
          /\ \A r \in 1..Len(self.Uf) : last'.ret[1][r] = Dot(self.Uf[r], last'.ret[2])
          /\ solver' = solver /\ lbc' = lbc /\ ubc' = ubc /\ builds' = builds
          /\ self' = self /\ hist' = hist]_vars

\* a step whose backend did not converge and that still returned a
\* nonzero u_opt for nonzero histories
C10_Witness ==
    /\ last.op = "step" /\ last.result = "ok" /\ ~last.converged
    /\ last.ncalls = 1 /\ np_any(last.p) /\ np_any(last.ret[1])
    /\ args.u_dim # args.y_dim

\* C11: in the 'du' variant of either design, du has u_dim*Np entries;
\* entry c of block 0 is (Uf*g)[c] minus entry c of the last u_dim entries
\* of uini, entry c of block k (1 <= k < Np) is entry c of block k of Uf*g
\* minus entry c of block k-1 of Uf*g, and no entry of the last block of
\* Uf*g serves as a previous value.
C11_ControlDifference ==
    (~IsNone(solver) /\ Val(solver).uloss = "du") =>
        LET du == Val(solver).obj.du
            n == args.u_dim
        IN  /\ Len(du) = n * args.Np
            /\ \A c \in 1..n :
                 /\ du[c].cur = Entry("Uf*g", c)
                 /\ du[c].prev = Entry("uini", n * args.Tini - n + c)
            /\ \A k \in 1..(args.Np - 1), c \in 1..n :
                 /\ du[k * n + c].cur = Entry("Uf*g", k * n + c)
                 /\ du[k * n + c].prev = Entry("Uf*g", (k - 1) * n + c)
            /\ \A j \in 1..Len(du) :
                 ~(du[j].prev.sym = "Uf*g" /\ du[j].prev.at > n * (args.Np - 1))

\* a 'du' solver of the robust design replacing one of the standard design,
\* for two inputs and a two-step horizon
C11_Witness ==
    /\ ~IsNone(solver) /\ Val(solver).uloss = "du" /\ Val(solver).mode = "robust"
    /\ ~IsNone(last.held) /\ Val(last.held).uloss = "du" /\ Val(last.held).mode = "standard"
    /\ args.u_dim >= 2 /\ args.Np >= 2

\* C12: a formulate call of either design that fails a pre-check (unknown
\* uloss, missing lambda_g or lambda_y, too few degrees of freedom, 'uus'
\* without uref) leaves solver, lbc and ubc as they were; solver, lbc and ubc
\* are unset together and stay unset until a formulate call has succeeded;
\* and the stored bounds have one entry per constraint row of the held
\* solver, whose equality block is the one of the held solver's design.
C12_FormulateAtomic ==
    /\ [](/\ IsNone(solver) = IsNone(lbc) /\ IsNone(solver) = IsNone(ubc)
          /\ (builds = 0) => IsNone(solver)
          /\ (~IsNone(solver)) =>
                /\ Len(Val(lbc)) = Len(Val(solver).C)
                /\ Len(Val(ubc)) = Len(Val(solver).C)
                /\ Len(Val(lbc)) = Len(self.Hc)
                       + (IF Val(solver).mode = "standard" THEN EqUY ELSE EqU))
    /\ [][(last'.op = "formulate" /\ last'.result # "ok")
             => (solver' = solver /\ lbc' = lbc /\ ubc' = ubc)]_vars

\* a standard formulate call that failed while a robust solver is held, the
\* solver and its bounds being the robust ones still
C12_Witness ==
    /\ last.op = "formulate" /\ last.mode = "standard" /\ last.result = "ValueError:dof"
    /\ ~IsNone(solver) /\ solver = last.held /\ Val(solver).mode = "robust"
    /\ Len(Val(lbc)) = Len(self.Hc) + EqU /\ EqUY > EqU

====
